---- MODULE Spec2Model ----
(***************************************************************************)
(* Model of packages/ui-predicate-core/src/invariants.js: the ten          *)
(* invariants that gate mutations of a predicate tree, the two structural  *)
(* rules they consult, and the "remove" operation that chains two of them. *)
(*                                                                         *)
(* Two specifications:                                                     *)
(*   Spec     the remove operation on a predicate tree (promise chain)     *)
(*   SpecInv  single calls of each invariant on inputs from bounded sets   *)
(***************************************************************************)
EXTENDS Integers, Sequences, FiniteSets

\* ---------------------------------------------------------------- bounds
\* number of predicate objects on the heap (node 1 is the root)
MaxNodes == 4
\* largest length of an array / array-like value
MaxLen == 2

Nodes == 1..MaxNodes

\* ------------------------------------------------------- javascript values
CompoundPredicate == "CompoundPredicate"
ComparisonPredicate == "ComparisonPredicate"
Variants == {CompoundPredicate, ComparisonPredicate}

Undefined == [t |-> "undefined"]
Null == [t |-> "null"]
Str(s, n) == [t |-> "string", s |-> s, length |-> n]
\* an array of n elements (it has no $_type property)
Arr(n) == [t |-> "array", length |-> n, _type |-> "undefined"]
\* a plain object; _type is the value of its $_type property
\* ("undefined" when it has none), ref is its identity
Obj(ty, r) == [t |-> "object", _type |-> ty, ref |-> r]

\* Option (Some / None) as used through isNone() and value()
None == [t |-> "None"]
Some(v) == [t |-> "Some", value |-> v]
isNone(o) == o.t = "None"
value(o) == o.value

\* a settled promise: resolved with a value, or rejected with an error kind
Resolve(v) == [value |-> v, ok |-> TRUE, kind |-> "none"]
Reject(k) == [value |-> Undefined, ok |-> FALSE, kind |-> k]

\* ------------------------------------------------------------ the heap
\* A heap gives every predicate object its variant and the compound
\* predicate whose `predicates` array holds it (0: held by none).
Heaps ==
  { h \in [ntype : [Nodes -> Variants], parent : [Nodes -> 0..MaxNodes]] :
      /\ h.ntype[1] = CompoundPredicate
      /\ h.parent[1] = 0
      /\ \A n \in Nodes \ {1} :
           /\ h.parent[n] < n
           /\ h.parent[n] # 0 => h.ntype[h.parent[n]] = CompoundPredicate }

\* the object for node n
Node(h, n) == Obj(h.ntype[n], n)

NodeSeq == [i \in 1..MaxNodes |-> i]
\* the `predicates` array of node n, in order
predicates(h, n) == SelectSeq(NodeSeq, LAMBDA m : h.parent[m] = n)

\* variant check capability: CompoundPredicate.is / ComparisonPredicate.is
Is(Variant, v) == v.t \in {"object", "array"} /\ v._type = Variant

\* ramda is(Object, v)
isObject(v) == v.t \in {"object", "array"}

RECURSIVE Ancestors(_, _)
Ancestors(h, n) ==
  IF h.parent[n] = 0 THEN {n} ELSE {n} \cup Ancestors(h, h.parent[n])

\* the nodes reachable from node r (r included)
Reachable(h, r) == {n \in Nodes : r \in Ancestors(h, n)}

\* the ComparisonPredicate leaves reachable from node r
Leaves(h, r) == {n \in Reachable(h, r) : h.ntype[n] = ComparisonPredicate}

\* --------------------------------------------------------------- rules
predicateToRemoveIsRootPredicate(root, predicateToRemove) ==
  root.t = "object" /\ predicateToRemove.t = "object"
  /\ root.ref = predicateToRemove.ref

\* CompoundPredicate.forEach(root, fn) with fn counting the comparison
\* predicates: pre-order walk over root and all its descendants
RECURSIVE forEachCount(_, _, _)
forEachCount(h, todo, Comparison) ==
  IF todo = <<>> THEN 0
  ELSE LET n == Head(todo)
       IN (IF Is(Comparison, Node(h, n)) THEN 1 ELSE 0)
          + forEachCount(h, predicates(h, n) \o Tail(todo), Comparison)

predicateToRemoveIsTheLastComparisonPredicate(h, root, Compound, Comparison) ==
  forEachCount(h, <<root.ref>>, Comparison) = 1

\* ----------------------------------------------------------- invariants
\* variant: the Array.isArray test is left out, so only `.length === 0` decides
CompoundPredicateMustHaveAtLeastOneSubPredicate_NoIsArray(preds) ==
  IF preds.t \in {"undefined", "null"} THEN Reject("TypeError")
  ELSE IF preds.t \in {"array", "string"} /\ preds.length = 0
  THEN Reject("CompoundPredicateMustHaveAtLeastOneSubPredicate")
  ELSE Resolve(Undefined)

CompoundPredicateMustHaveAtLeastOneSubPredicate(preds) ==
  IF ~(preds.t = "array") \/ preds.length = 0
  THEN Reject("CompoundPredicateMustHaveAtLeastOneSubPredicate")
  ELSE Resolve(Undefined)

\* variant: `type in acceptedTypes`, which also sees inherited keys
PredicateTypeMustBeValid_In(type, acceptedTypes) ==
  IF ~(type \in acceptedTypes.own \cup acceptedTypes.proto)
  THEN Reject("InvalidPredicateType")
  ELSE Resolve(Undefined)

\* acceptedTypes is an object: own are its own enumerable keys, proto the
\* keys it inherits; Object.keys lists the own ones only
PredicateTypeMustBeValid(type, acceptedTypes) ==
  IF ~(type \in acceptedTypes.own)
  THEN Reject("InvalidPredicateType")
  ELSE Resolve(Undefined)

RootPredicateMustBeACompoundPredicate(root, Compound) ==
  IF ~Is(Compound, root)
  THEN Reject("RootPredicateMustBeACompoundPredicate")
  ELSE Resolve(root)

\* variant: the tag compared against is the other variant's
PredicateMustBeAComparisonPredicate_WrongTag(root) ==
  IF ~isObject(root) \/ root._type # "CompoundPredicate"
  THEN Reject("PredicateMustBeAComparisonPredicate")
  ELSE Resolve(Undefined)

PredicateMustBeAComparisonPredicate(root) ==
  IF ~isObject(root) \/ root._type # "ComparisonPredicate"
  THEN Reject("PredicateMustBeAComparisonPredicate")
  ELSE Resolve(Undefined)

AddOnlySupportsAfter(how) ==
  IF how # "after"
  THEN Reject("AddCurrentlyOnlySupportAfterInsertion")
  ELSE Resolve(Undefined)

TargetMustReferToADefinedType(type, target) ==
  IF isNone(type)
  THEN Reject("TargetMustReferToADefinedType")
  ELSE Resolve(value(type))

Target_idMustReferToADefinedTarget(target) ==
  IF isNone(target)
  THEN Reject("Target_idMustReferToADefinedTarget")
  ELSE Resolve(target)

Operator_idMustReferToADefinedOperator(operator) ==
  IF isNone(operator)
  THEN Reject("Operator_idMustReferToADefinedOperator")
  ELSE Resolve(operator)

\* variant: resolves with the root instead of the candidate
RemovePredicateMustDifferFromRootPredicate_YieldsRoot(root, predicateToRemove) ==
  IF predicateToRemoveIsRootPredicate(root, predicateToRemove)
  THEN Reject("ForbiddenCannotRemoveRootCompoundPredicate")
  ELSE Resolve(root)

\* variant: rejects with the error of the other remove invariant
RemovePredicateMustDifferFromRootPredicate_WrongKind(root, predicateToRemove) ==
  IF predicateToRemoveIsRootPredicate(root, predicateToRemove)
  THEN Reject("ForbiddenCannotRemoveLastComparisonPredicate")
  ELSE Resolve(predicateToRemove)

RemovePredicateMustDifferFromRootPredicate(root, predicateToRemove) ==
  IF predicateToRemoveIsRootPredicate(root, predicateToRemove)
  THEN Reject("ForbiddenCannotRemoveRootCompoundPredicate")
  ELSE Resolve(predicateToRemove)

\* variant: `||` in place of `&&`
RemovePredicateCannotBeTheLastComparisonPredicate_Or(h, root, predicateToRemove, Compound, Comparison) ==
  IF \/ Is(Comparison, predicateToRemove)
     \/ predicateToRemoveIsTheLastComparisonPredicate(h, root, Compound, Comparison)
  THEN Reject("ForbiddenCannotRemoveLastComparisonPredicate")
  ELSE Resolve(Undefined)

\* variant: rejects with the error its @return comment names
RemovePredicateCannotBeTheLastComparisonPredicate_DocKind(h, root, predicateToRemove, Compound, Comparison) ==
  IF /\ Is(Comparison, predicateToRemove)
     /\ predicateToRemoveIsTheLastComparisonPredicate(h, root, Compound, Comparison)
  THEN Reject("RootPredicateMustBeACompoundPredicate")
  ELSE Resolve(Undefined)

\* variant: the leaves are counted without the candidate's own subtree
RemovePredicateCannotBeTheLastComparisonPredicate_Candidate(h, root, predicateToRemove, Compound, Comparison) ==
  IF /\ Is(Comparison, predicateToRemove)
     /\ Leaves(h, root.ref) \ Reachable(h, predicateToRemove.ref) = {}
  THEN Reject("ForbiddenCannotRemoveLastComparisonPredicate")
  ELSE Resolve(Undefined)

RemovePredicateCannotBeTheLastComparisonPredicate(h, root, predicateToRemove, Compound, Comparison) ==
  IF /\ Is(Comparison, predicateToRemove)
     /\ predicateToRemoveIsTheLastComparisonPredicate(h, root, Compound, Comparison)
  THEN Reject("ForbiddenCannotRemoveLastComparisonPredicate")
  ELSE Resolve(Undefined)

\* ------------------------------------------------------------- state
VARIABLES
  heap,       \* the predicate objects and the tree they form under node 1
  pc,         \* position of the remove operation in its promise chain
  cand,       \* the predicate the remove operation was asked to remove
  evaluated,  \* the invariants the running remove has evaluated, in order
  result,     \* how the last remove operation settled
  before,     \* the heap when the last remove operation started
  call,       \* SpecInv: the last invariant call, its arguments and outcome
  prev        \* SpecInv: the rejection seen before that call, if any

vars == <<heap, pc, cand, evaluated, result, before, call, prev>>

root == Node(heap, 1)

\* a tree as the constructors build it: every compound predicate under the
\* root has at least one sub-predicate
WellFormed(h) ==
  \A n \in Reachable(h, 1) :
    h.ntype[n] = CompoundPredicate => \E m \in Nodes : h.parent[m] = n

NoCall == [inv |-> "none", args |-> <<>>, outcome |-> Resolve(Undefined)]
NoPrev == [kind |-> "none", inv |-> "none"]

Init ==
  /\ heap \in {h \in Heaps : WellFormed(h)}
  /\ pc = "idle"
  /\ cand = 0
  /\ evaluated = <<>>
  /\ result = Resolve(Undefined)
  /\ before = heap
  /\ call = NoCall
  /\ prev = NoPrev

\* ------------------------------------------------- the remove operation
\* remove(predicate): RemovePredicateMustDifferFromRootPredicate, then
\* RemovePredicateCannotBeTheLastComparisonPredicate, then the removal.
RemoveStart ==
  /\ pc = "idle"
  /\ \E c \in Reachable(heap, 1) : cand' = c
  /\ pc' = "differ"
  /\ evaluated' = <<>>
  /\ before' = heap
  /\ UNCHANGED <<heap, result, call, prev>>

CheckDiffer ==
  /\ pc = "differ"
  /\ LET o == RemovePredicateMustDifferFromRootPredicate(root, Node(heap, cand))
     IN /\ evaluated' = Append(evaluated,
                [inv |-> "RemovePredicateMustDifferFromRootPredicate", outcome |-> o])
        /\ IF o.ok
           THEN pc' = "last" /\ UNCHANGED result
           ELSE pc' = "idle" /\ result' = o
  /\ UNCHANGED <<heap, cand, before, call, prev>>

CheckLast ==
  /\ pc = "last"
  /\ LET o == RemovePredicateCannotBeTheLastComparisonPredicate(
                heap, root, Node(heap, cand), CompoundPredicate, ComparisonPredicate)
     IN /\ evaluated' = Append(evaluated,
                [inv |-> "RemovePredicateCannotBeTheLastComparisonPredicate", outcome |-> o])
        /\ IF o.ok
           THEN pc' = "remove" /\ UNCHANGED result
           ELSE pc' = "idle" /\ result' = o
  /\ UNCHANGED <<heap, cand, before, call, prev>>

\* the candidate leaves its parent's `predicates`, with all its descendants
DoRemove ==
  /\ pc = "remove"
  /\ heap' = [heap EXCEPT !.parent[cand] = 0]
  /\ result' = Resolve(Undefined)
  /\ pc' = "idle"
  /\ UNCHANGED <<cand, evaluated, before, call, prev>>

Next == RemoveStart \/ CheckDiffer \/ CheckLast \/ DoRemove

Spec == Init /\ [][Next]_vars

\* ------------------------------------------------ single invariant calls
\* what a call leaves behind: the call itself, and the rejection of the
\* call before it, if that one was rejected
Called(name, args, o) == [inv |-> name, args |-> args, outcome |-> o]
Carried ==
  IF call.outcome.ok THEN prev
  ELSE [kind |-> call.outcome.kind, inv |-> call.inv]

\* values a caller may hand over as a list of sub-predicates
ListInputs ==
  {Undefined, Null, Obj("undefined", 0)}
    \cup {Arr(n) : n \in 0..MaxLen}
    \cup {Str("x", n) : n \in 0..MaxLen}

\* type tags, and objects used as the accepted-types mapping
TypeTags == {CompoundPredicate, ComparisonPredicate, "toString"}
AcceptedTypes == {[own |-> ks, proto |-> {"toString"}] : ks \in SUBSET Variants}

\* values a caller may hand over as a predicate
PredicateInputs ==
  {Undefined, Null, Str(ComparisonPredicate, 19), Arr(0)}
    \cup {Obj(ty, 0) : ty \in Variants \cup {"undefined", "Other"}}

Hows == {"after", "before", "into"}

\* resolved references: Type, Target and Operator objects
Refs == {Obj("undefined", 1), Obj("undefined", 2)}
Options == {None} \cup {Some(v) : v \in Refs}

CallCompoundPredicateMustHaveAtLeastOneSubPredicate ==
  /\ prev = NoPrev
  /\ \E preds \in ListInputs :
       call' =
        Called("CompoundPredicateMustHaveAtLeastOneSubPredicate", <<preds>>,
               CompoundPredicateMustHaveAtLeastOneSubPredicate(preds))
  /\ prev' = Carried
  /\ UNCHANGED <<heap, pc, cand, evaluated, result, before>>

CallPredicateTypeMustBeValid ==
  /\ prev = NoPrev
  /\ \E type \in TypeTags, acceptedTypes \in AcceptedTypes :
       call' =
        Called("PredicateTypeMustBeValid", <<type, acceptedTypes>>,
               PredicateTypeMustBeValid(type, acceptedTypes))
  /\ prev' = Carried
  /\ UNCHANGED <<heap, pc, cand, evaluated, result, before>>

CallRootPredicateMustBeACompoundPredicate ==
  /\ prev = NoPrev
  /\ \E r \in PredicateInputs :
       call' =
        Called("RootPredicateMustBeACompoundPredicate", <<r>>,
               RootPredicateMustBeACompoundPredicate(r, CompoundPredicate))
  /\ prev' = Carried
  /\ UNCHANGED <<heap, pc, cand, evaluated, result, before>>

CallPredicateMustBeAComparisonPredicate ==
  /\ prev = NoPrev
  /\ \E r \in PredicateInputs :
       call' =
        Called("PredicateMustBeAComparisonPredicate", <<r>>,
               PredicateMustBeAComparisonPredicate(r))
  /\ prev' = Carried
  /\ UNCHANGED <<heap, pc, cand, evaluated, result, before>>

CallAddOnlySupportsAfter ==
  /\ prev = NoPrev
  /\ \E how \in Hows :
       call' =
        Called("AddOnlySupportsAfter", <<how>>, AddOnlySupportsAfter(how))
  /\ prev' = Carried
  /\ UNCHANGED <<heap, pc, cand, evaluated, result, before>>

CallTargetMustReferToADefinedType ==
  /\ prev = NoPrev
  /\ \E type \in Options, target \in Refs :
       call' =
        Called("TargetMustReferToADefinedType", <<type, target>>,
               TargetMustReferToADefinedType(type, target))
  /\ prev' = Carried
  /\ UNCHANGED <<heap, pc, cand, evaluated, result, before>>

CallTarget_idMustReferToADefinedTarget ==
  /\ prev = NoPrev
  /\ \E target \in Options :
       call' =
        Called("Target_idMustReferToADefinedTarget", <<target>>,
               Target_idMustReferToADefinedTarget(target))
  /\ prev' = Carried
  /\ UNCHANGED <<heap, pc, cand, evaluated, result, before>>

CallOperator_idMustReferToADefinedOperator ==
  /\ prev = NoPrev
  /\ \E operator \in Options :
       call' =
        Called("Operator_idMustReferToADefinedOperator", <<operator>>,
               Operator_idMustReferToADefinedOperator(operator))
  /\ prev' = Carried
  /\ UNCHANGED <<heap, pc, cand, evaluated, result, before>>

\* the two remove invariants, on the tree under node 1 and any candidate
\* object of the heap, in the tree or not
CallRemovePredicateMustDifferFromRootPredicate ==
  /\ prev = NoPrev
  /\ \E c \in Nodes :
       call' =
        Called("RemovePredicateMustDifferFromRootPredicate", <<c>>,
               RemovePredicateMustDifferFromRootPredicate(root, Node(heap, c)))
  /\ prev' = Carried
  /\ UNCHANGED <<heap, pc, cand, evaluated, result, before>>

CallRemovePredicateCannotBeTheLastComparisonPredicate ==
  /\ prev = NoPrev
  /\ \E c \in Nodes :
       call' =
        Called("RemovePredicateCannotBeTheLastComparisonPredicate", <<c>>,
               RemovePredicateCannotBeTheLastComparisonPredicate(
                 heap, root, Node(heap, c), CompoundPredicate, ComparisonPredicate))
  /\ prev' = Carried
  /\ UNCHANGED <<heap, pc, cand, evaluated, result, before>>

\* any tree the remove operation can leave behind, one per behaviour
InitInv ==
  /\ heap \in Heaps
  /\ pc = "idle"
  /\ cand = 0
  /\ evaluated = <<>>
  /\ result = Resolve(Undefined)
  /\ before = heap
  /\ call = NoCall
  /\ prev = NoPrev

NextInv ==
  \/ CallCompoundPredicateMustHaveAtLeastOneSubPredicate
  \/ CallPredicateTypeMustBeValid
  \/ CallRootPredicateMustBeACompoundPredicate
  \/ CallPredicateMustBeAComparisonPredicate
  \/ CallAddOnlySupportsAfter
  \/ CallTargetMustReferToADefinedType
  \/ CallTarget_idMustReferToADefinedTarget
  \/ CallOperator_idMustReferToADefinedOperator
  \/ CallRemovePredicateMustDifferFromRootPredicate
  \/ CallRemovePredicateCannotBeTheLastComparisonPredicate

SpecInv == InitInv /\ [][NextInv]_vars

\* ------------------------------------------------------------ properties
\* the ten error kinds of the taxonomy
ErrorKinds ==
  { "CompoundPredicateMustHaveAtLeastOneSubPredicate", "InvalidPredicateType",
    "RootPredicateMustBeACompoundPredicate", "PredicateMustBeAComparisonPredicate",
    "AddCurrentlyOnlySupportAfterInsertion", "TargetMustReferToADefinedType",
    "Target_idMustReferToADefinedTarget", "Operator_idMustReferToADefinedOperator",
    "ForbiddenCannotRemoveRootCompoundPredicate",
    "ForbiddenCannotRemoveLastComparisonPredicate" }

Rejected(k) == ~call.outcome.ok /\ call.outcome.kind = k

\* C1: after any sequence of gated remove operations at least one
\* ComparisonPredicate leaf is still reachable from the root, whatever the
\* candidates were (compound predicates included).
C1_ALeafRemains == Leaves(heap, 1) # {}

C3_DifferFromRoot ==
  call.inv = "RemovePredicateMustDifferFromRootPredicate"
  => IF call.args[1] = 1
     THEN Rejected("ForbiddenCannotRemoveRootCompoundPredicate")
     ELSE call.outcome.ok /\ call.outcome.value = Node(heap, call.args[1])

C3_Witness ==
  /\ call.inv = "RemovePredicateMustDifferFromRootPredicate"
  /\ call.args[1] # 1
  /\ heap.ntype[call.args[1]] = CompoundPredicate
  /\ call.outcome.ok
  /\ call.outcome.value.ref = call.args[1]

\* C4: each of the three Option invariants rejects an absent Option with its
\* own kind, and for a present Option passes and yields the value inside the
\* Option (not the Option itself).
C4_OptionUnwrapped ==
  call.inv \in { "TargetMustReferToADefinedType",
                 "Target_idMustReferToADefinedTarget",
                 "Operator_idMustReferToADefinedOperator" }
  => IF isNone(call.args[1])
     THEN Rejected(call.inv)
     ELSE call.outcome.ok /\ call.outcome.value = value(call.args[1])

C6_AtLeastOneSubPredicate ==
  call.inv = "CompoundPredicateMustHaveAtLeastOneSubPredicate"
  => IF call.args[1].t = "array" /\ call.args[1].length > 0
     THEN call.outcome.ok
     ELSE Rejected("CompoundPredicateMustHaveAtLeastOneSubPredicate")

C6_Witness ==
  /\ call.inv = "CompoundPredicateMustHaveAtLeastOneSubPredicate"
  /\ call.args[1].t = "string"
  /\ call.args[1].length > 0
  /\ Rejected("CompoundPredicateMustHaveAtLeastOneSubPredicate")

\* C7: PredicateTypeMustBeValid passes exactly when the type tag is one of the
\* mapping's keys, and otherwise rejects with InvalidPredicateType.
C7_TypeIsAKey ==
  call.inv = "PredicateTypeMustBeValid"
  => /\ call.outcome.ok <=> call.args[1] \in call.args[2].own
     /\ ~call.outcome.ok => call.outcome.kind = "InvalidPredicateType"

C7_Witness ==
  /\ call.inv = "PredicateTypeMustBeValid"
  /\ call.args[1] = "toString"
  /\ call.args[2].own # {}
  /\ Rejected("InvalidPredicateType")

RemoveChain ==
  << "RemovePredicateMustDifferFromRootPredicate",
     "RemovePredicateCannotBeTheLastComparisonPredicate" >>

C10_CandidateIsNotConsulted ==
  call.inv = "RemovePredicateCannotBeTheLastComparisonPredicate"
  => IF heap.ntype[call.args[1]] = ComparisonPredicate
     THEN prev.inv = "RemovePredicateCannotBeTheLastComparisonPredicate"
            => Rejected(prev.kind)
     ELSE call.outcome.ok

C10_Witness ==
  /\ call.inv = "RemovePredicateCannotBeTheLastComparisonPredicate"
  /\ prev.inv = "RemovePredicateCannotBeTheLastComparisonPredicate"
  /\ heap.ntype[call.args[1]] = ComparisonPredicate
  /\ call.args[1] \notin Reachable(heap, 1)
  /\ Rejected("ForbiddenCannotRemoveLastComparisonPredicate")

====
